---- MODULE Spec2Model ----
(***************************************************************************)
(* A model of pytech's event-driven backtest: the Backtest driver loop     *)
(* (pytech/backtest/backtest.py), the OwnedAsset accounting                *)
(* (pytech/fin/asset/owned_asset.py) and the Portfolio, Bar feed,          *)
(* Strategy, Blotter and Execution handler those two call; and the         *)
(* transactional session of pytech/db_utils.py.  The driver is specified   *)
(* by Spec, and a lone OwnedAsset, a lone Blotter and a sequence of        *)
(* session uses by SpecAsset, SpecBlotter and SpecSession.                 *)
(*                                                                         *)
(* The Portfolio sizes every order to sizing_quantity shares and the       *)
(* execution handler charges fill_commission on every fill; both are fixed *)
(* when the run is set up.  A Fill's quantity is signed (positive buys,    *)
(* negative sells); the Portfolio opens a LONG position on a buy and a     *)
(* SHORT one on a sell, and hands an OwnedAsset the quantity in the sense  *)
(* of its position.                                                        *)
(*                                                                         *)
(* Numbers: prices, quantities and cash are integers.  The one true        *)
(* division of the code, average_share_price_paid =                        *)
(* total_position_value / shares_owned, is kept as an exact fraction       *)
(* <<numerator, denominator>> in lowest terms with a positive denominator. *)
(***************************************************************************)
EXTENDS Integers, Sequences, FiniteSets, TLC

\* ------------------------------------------------------------------ bounds
\* Most bars the bar feed yields before it signals the end of history.
MaxBars == 2
\* Most SIGNAL events the strategy pushes in one run.
MaxSignals == 3
\* Most make_trade / update_total_position_value calls on a lone OwnedAsset.
MaxCalls == 2
\* Most place_order / on_fill / on_reject calls on a lone Blotter.
MaxBlotterCalls == 5
\* Most uses of transactional_session, one after the other.
MaxUses == 3

\* ------------------------------------------------------- inputs (small sets)
Tickers == {"X"}
Prices == {10, 12, 15}
Sizes == {10, 50, 100}
Commissions == {0, 1}
Positions == {"LONG", "SHORT"}
\* quantities handed to OwnedAsset directly
Shares == {0, 5, 10}
Quantities == {-10, -5, 5, 10}
\* numbers that are no numbers.Integral: floats, written as Python prints them
NonIntegral == {"2.5"}
\* price dates handed to update_total_position_value
Dates == {1, 2}

\* Backtest.__init__: self.initial_capital = initial_capital
initial_capital == 1000

\* ----------------------------------------------------------- arithmetic
Abs(n) == IF n < 0 THEN -n ELSE n

RECURSIVE Gcd(_, _)
Gcd(a, b) == IF b = 0 THEN a ELSE Gcd(b, a % b)

\* n / d for d # 0, as Python's true division computes it, kept exact.
Frac(n, d) ==
    LET g == Gcd(Abs(n), Abs(d))
        s == IF d < 0 THEN -1 ELSE 1
    IN  <<(s * n) \div g, (s * d) \div g>>

\* ------------------------------------------------------------ OwnedAsset
NoAsset == [ticker |-> "none"]

\* OwnedAsset._set_position_cost_and_value: both totals move by
\* price * self.shares_owned, the share count the asset holds at the call.
_set_position_cost_and_value(oa, price) ==
    IF oa.position = "LONG"
    THEN [oa EXCEPT
            !.total_position_cost = @ + (price * oa.shares_owned) * (-1),
            !.total_position_value = @ + price * oa.shares_owned]
    ELSE [oa EXCEPT
            !.total_position_cost = @ + price * oa.shares_owned,
            !.total_position_value = @ + (price * oa.shares_owned) * (-1)]

\* OwnedAsset.shares_owned, the setter's test: isinstance(shares_owned,
\* numbers.Integral).  The numbers here are the integers and the floats of
\* NonIntegral, told apart by how they are written.
IsIntegral(shares_owned) ==
    \A f \in NonIntegral : ToString(shares_owned) # ToString(f)

\* self.shares_owned + qty, the value make_trade hands the setter: the sum of
\* an integer and a float is a float.
Plus(shares_owned, qty) ==
    IF IsIntegral(qty) THEN shares_owned + qty ELSE qty

\* OwnedAsset.__init__: the new asset, or NoAsset when the shares_owned
\* setter raises TypeError and no object is made.
OwnedAsset(ticker, shares_owned, position, avg_share_price, purchase_date) ==
    IF ~IsIntegral(shares_owned) THEN NoAsset
    ELSE _set_position_cost_and_value(
            [ticker |-> ticker,
             position |-> position,
             purchase_date |-> purchase_date,
             average_share_price_paid |-> <<avg_share_price, 1>>,
             latest_price |-> avg_share_price,
             latest_price_time |-> purchase_date,
             total_position_value |-> 0,
             total_position_cost |-> 0,
             shares_owned |-> shares_owned],
            avg_share_price)

\* The parameters of OwnedAsset.__init__ after self, and those without a
\* default.
InitParams ==
    {"ticker", "shares_owned", "position", "avg_share_price", "purchase_date"}
InitRequired == InitParams \ {"purchase_date"}

\* cls(**kwargs) binds its keywords to __init__'s parameters: every keyword
\* names a parameter and every parameter without a default is given;
\* otherwise the call raises TypeError.
Binds(keywords) ==
    /\ keywords \subseteq InitParams
    /\ InitRequired \subseteq keywords

\* The keywords of from_trade's owned_asset_dict.
FromTradeKeywords ==
    {"ticker", "position", "shares_owned", "average_share_price",
     "purchase_date"}

\* OwnedAsset.from_trade: trade is a record with ticker, qty,
\* avg_price_per_share and trade_date.  The new asset, or NoAsset when
\* cls(**owned_asset_dict) raises TypeError.
from_trade(trade, asset_position) ==
    IF Binds(FromTradeKeywords)
    THEN OwnedAsset(trade.ticker, trade.qty, asset_position,
                    trade.avg_price_per_share, trade.trade_date)
    ELSE NoAsset

\* A make_trade that drops a quantity the setter refuses and returns None.
make_trade_silent(oa, qty, price_per_share) ==
    IF ~IsIntegral(Plus(oa.shares_owned, qty))
    THEN [asset |-> oa, ret |-> "None"]
    ELSE LET a1 == [oa EXCEPT !.shares_owned = Plus(@, qty)]
             a2 == _set_position_cost_and_value(a1, price_per_share)
         IN  IF a2.shares_owned = 0
             THEN [asset |-> a2, ret |-> "None"]
             ELSE [asset |-> [a2 EXCEPT !.average_share_price_paid =
                                 Frac(a2.total_position_value, a2.shares_owned)],
                   ret |-> "self"]

\* A make_trade without its except clause: the ZeroDivisionError escapes.
make_trade_unguarded(oa, qty, price_per_share) ==
    IF ~IsIntegral(Plus(oa.shares_owned, qty))
    THEN [asset |-> oa, ret |-> "TypeError"]
    ELSE LET a1 == [oa EXCEPT !.shares_owned = Plus(@, qty)]
             a2 == _set_position_cost_and_value(a1, price_per_share)
         IN  IF a2.shares_owned = 0
             THEN [asset |-> a2, ret |-> "ZeroDivisionError"]
             ELSE [asset |-> [a2 EXCEPT !.average_share_price_paid =
                                 Frac(a2.total_position_value, a2.shares_owned)],
                   ret |-> "self"]

\* OwnedAsset.make_trade: the asset after the call and what the call returns
\* ("self", or "None" when the division raised ZeroDivisionError) or raises
\* ("TypeError", from the shares_owned setter, before anything is assigned).
make_trade(oa, qty, price_per_share) ==
    IF ~IsIntegral(Plus(oa.shares_owned, qty))
    THEN [asset |-> oa, ret |-> "TypeError"]
    ELSE LET a1 == [oa EXCEPT !.shares_owned = Plus(@, qty)]
             a2 == _set_position_cost_and_value(a1, price_per_share)
         IN  IF a2.shares_owned = 0
             THEN [asset |-> a2, ret |-> "None"]
             ELSE [asset |-> [a2 EXCEPT !.average_share_price_paid =
                                 Frac(a2.total_position_value, a2.shares_owned)],
                   ret |-> "self"]

\* A mark-to-market that books the new value as cost too.
update_total_position_value_and_cost(oa, latest_price, price_date) ==
    LET a1 == [oa EXCEPT !.latest_price = latest_price,
                         !.latest_price_time = price_date]
    IN  IF a1.position = "SHORT"
        THEN [a1 EXCEPT !.total_position_value =
                            (a1.latest_price * a1.shares_owned) * (-1),
                        !.total_position_cost =
                            a1.latest_price * a1.shares_owned]
        ELSE [a1 EXCEPT !.total_position_value =
                            a1.latest_price * a1.shares_owned,
                        !.total_position_cost =
                            (a1.latest_price * a1.shares_owned) * (-1)]

\* OwnedAsset.update_total_position_value
update_total_position_value(oa, latest_price, price_date) ==
    LET a1 == [oa EXCEPT !.latest_price = latest_price,
                         !.latest_price_time = price_date]
    IN  IF a1.position = "SHORT"
        THEN [a1 EXCEPT !.total_position_value =
                            (a1.latest_price * a1.shares_owned) * (-1)]
        ELSE [a1 EXCEPT !.total_position_value =
                            a1.latest_price * a1.shares_owned]

\* OwnedAsset.market_value
market_value(oa) == oa.shares_owned * oa.latest_price

\* ------------------------------------------------------------------ state
VARIABLES
    pc,             \* where Backtest.run stands
    handler_calls,  \* the handlers the last _process_event call called, in order
    iterations,     \* run's local counter
    events,         \* Backtest.events, the FIFO queue
    bars,           \* bars the feed has delivered so far
    latest_price,   \* the feed's latest observation for each ticker
    signals,        \* Backtest.signals
    orders,         \* Backtest.orders
    fills,          \* Backtest.fills
    cash,           \* Portfolio cash
    positions,      \* Portfolio active positions: ticker -> OwnedAsset or NoAsset
    snapshots,      \* Portfolio history, one entry per update_timeindex
    rejections,     \* Portfolio count of signals dropped for liquidity
    order_status,   \* Blotter: status of each order, by order id
    liquidity,      \* the last check_liquidity call: its inputs and result
    fill_log,       \* the fills update_fill has applied, in order
    sizing_quantity,  \* the sizing policy: shares per order, fixed at construction
    fill_commission,  \* the execution handler's commission on a fill, likewise
    oa,             \* a lone OwnedAsset (or NoAsset before construction)
    oa_log,         \* the calls made on oa, in order, its construction first
    oa_ret,         \* what the last call on oa returned or raised
    blotter_log,    \* the calls made on a lone Blotter, in order
    tx,             \* a transactional_session use in progress
    tx_log          \* the transactional_session uses that have ended, in order

driver_vars == <<pc, handler_calls, iterations, events, bars, latest_price,
                 signals, orders, fills>>
portfolio_vars == <<cash, positions, snapshots, rejections, order_status,
                    liquidity, fill_log>>
asset_vars == <<oa, oa_log, oa_ret>>
config_vars == <<sizing_quantity, fill_commission>>
blotter_vars == <<blotter_log>>
session_vars == <<tx, tx_log>>
\* the components that are exercised on their own
lone_vars == <<asset_vars, blotter_vars, session_vars>>
vars == <<driver_vars, portfolio_vars, config_vars, lone_vars>>

\* ----------------------------------------------------------------- events
Event(type, bar) ==
    [type |-> type, bar |-> bar, ticker |-> "none", direction |-> "none",
     qty |-> 0, price |-> 0, commission |-> 0, order_id |-> 0]

MarketEvent(bar) == Event("MARKET", bar)

SignalEvent(bar, ticker, direction) ==
    [Event("SIGNAL", bar) EXCEPT !.ticker = ticker, !.direction = direction]

TradeEvent(bar, ticker, qty, order_id) ==
    [Event("TRADE", bar) EXCEPT !.ticker = ticker, !.qty = qty,
                                !.order_id = order_id]

FillEvent(bar, ticker, qty, price, commission, order_id) ==
    [Event("FILL", bar) EXCEPT !.ticker = ticker, !.qty = qty, !.price = price,
                               !.commission = commission, !.order_id = order_id]

\* the event types _process_event has a branch for
EventTypes == {"MARKET", "SIGNAL", "TRADE", "FILL"}

\* The events a strategy may push for one MARKET event: signals, and, the
\* queue taking any object, an event of a type the driver has no branch for.
SignalChoices == Tickers \X {"BUY", "SELL"}
StrategyEvents(bar) ==
    {SignalEvent(bar, c[1], c[2]) : c \in SignalChoices}
        \cup {Event("OTHER", bar)}
\* The batches it may push, given how many signals have been dispatched.
SignalBatches(bar, pushed) ==
    UNION {[1..n -> StrategyEvents(bar)] : n \in 0..(MaxSignals - pushed)}

RECURSIVE SumOver(_, _)
SumOver(f, S) ==
    IF S = {} THEN 0
    ELSE LET x == CHOOSE y \in S : TRUE IN f[x] + SumOver(f, S \ {x})

\* ----------------------------------------------------------------- Blotter
\* Blotter.on_fill without the check that the order is still open.
on_fill_unchecked(status, order_id) ==
    IF order_id \in DOMAIN status
    THEN [status EXCEPT ![order_id] = "FILLED"]
    ELSE status

\* Blotter.on_fill: the matching open order becomes FILLED; an order that is
\* not open has no match.
on_fill(status, order_id) ==
    IF order_id \in DOMAIN status /\ status[order_id] = "OPEN"
    THEN [status EXCEPT ![order_id] = "FILLED"]
    ELSE status

\* Blotter.on_reject: likewise, to REJECTED.
on_reject(status, order_id) ==
    IF order_id \in DOMAIN status /\ status[order_id] = "OPEN"
    THEN [status EXCEPT ![order_id] = "REJECTED"]
    ELSE status

\* the Blotter's open set
open_orders(status) == {id \in DOMAIN status : status[id] = "OPEN"}

\* -------------------------------------------------------------- Portfolio
owned == {t \in Tickers : positions[t] # NoAsset}

\* A liquidity check that also refuses an order costing exactly the cash held.
check_liquidity_strict(cash_available, price, qty) ==
    IF qty < 0 THEN TRUE ELSE ~(price * qty >= cash_available)

\* Portfolio.check_liquidity
check_liquidity(cash_available, price, qty) ==
    IF qty < 0 THEN TRUE ELSE ~(price * qty > cash_available)

\* Portfolio.update_timeindex: mark every open position to market, then
\* append one snapshot keyed by the event's timestamp.
update_timeindex(event) ==
    LET marked == [t \in Tickers |->
                     IF positions[t] = NoAsset THEN NoAsset
                     ELSE update_total_position_value(
                              positions[t], latest_price[t], event.bar)]
        held == {t \in Tickers : marked[t] # NoAsset}
        value == SumOver([t \in Tickers |->
                            IF t \in held THEN market_value(marked[t]) ELSE 0],
                         Tickers)
    IN  /\ positions' = marked
        /\ snapshots' = Append(snapshots,
               [timestamp |-> event.bar, cash |-> cash, value |-> value])

\* Blotter.place_order: a new OPEN order; its ORDER event.
place_order(event, qty) ==
    TradeEvent(event.bar, event.ticker, qty, Len(order_status) + 1)

\* Portfolio.update_signal, the sizing: the signed quantity and the price of
\* the order a signal is sized to.
signal_qty(event) ==
    IF event.direction = "BUY" THEN sizing_quantity ELSE -sizing_quantity
signal_price(event) == latest_price[event.ticker]

\* Portfolio.update_signal, the events it pushes: the Blotter's ORDER event
\* when the order is admissible, none otherwise.
signal_orders(event) ==
    IF check_liquidity(cash, signal_price(event), signal_qty(event))
    THEN <<place_order(event, signal_qty(event))>>
    ELSE <<>>

\* Portfolio.update_signal, the state it changes: the Blotter holds a new
\* OPEN order when the order is admissible, a rejection is counted otherwise.
update_signal(event) ==
    LET qty == signal_qty(event)
        price == signal_price(event)
        ok == check_liquidity(cash, price, qty)
    IN  /\ liquidity' = [called |-> TRUE, price |-> price, qty |-> qty,
                         cash |-> cash, result |-> ok]
        /\ order_status' = IF ok THEN Append(order_status, "OPEN")
                                 ELSE order_status
        /\ rejections' = IF ok THEN rejections ELSE rejections + 1

\* SimpleExecutionHandler.execute_order: fill the order at the latest price,
\* pushing its FILL event, or reject it, which the Blotter records.
execute_order(event) ==
    \/ /\ events' = Append(Tail(events),
              FillEvent(event.bar, event.ticker, event.qty,
                        latest_price[event.ticker], fill_commission,
                        event.order_id))
       /\ order_status' = order_status
    \/ /\ events' = Tail(events)
       /\ order_status' = on_reject(order_status, event.order_id)

\* Portfolio.update_fill, the Trade it makes of a fill and the side of the
\* position a first fill opens.
fill_trade(event) ==
    [ticker |-> event.ticker, qty |-> Abs(event.qty),
     avg_price_per_share |-> event.price, trade_date |-> event.bar]
fill_position(event) == IF event.qty > 0 THEN "LONG" ELSE "SHORT"

\* Portfolio.update_fill raises: the first fill for a ticker goes to the
\* factory, whose TypeError nothing in update_fill catches.
update_fill_raises(event) ==
    /\ positions[event.ticker] = NoAsset
    /\ from_trade(fill_trade(event), fill_position(event)) = NoAsset

\* Portfolio.update_fill: create the OwnedAsset on the first fill for the
\* ticker or update the held one with make_trade, adjust cash by the signed
\* proceeds minus commission, drop the position when no share is left.
update_fill(event) ==
    LET t == event.ticker
        held == positions[t]
        after ==
            IF held = NoAsset
            THEN from_trade(fill_trade(event), fill_position(event))
            ELSE make_trade(held,
                            IF held.position = "LONG" THEN event.qty
                                                      ELSE -event.qty,
                            event.price).asset
    IN  /\ positions' = [positions EXCEPT ![t] =
                            IF after.shares_owned = 0 THEN NoAsset ELSE after]
        /\ cash' = cash - (event.price * event.qty + event.commission)
        /\ order_status' = on_fill(order_status, event.order_id)
        /\ fill_log' = Append(fill_log,
               [qty |-> event.qty, price |-> event.price,
                commission |-> event.commission])

\* ----------------------------------------------------------------- Init
\* No OwnedAsset, Blotter or session is exercised on its own.
LoneIdle ==
    /\ oa = NoAsset
    /\ oa_log = <<>>
    /\ oa_ret = "none"
    /\ blotter_log = <<>>
    /\ tx = [at |-> "idle"]
    /\ tx_log = <<>>

\* After Backtest.__init__, with a Portfolio holding the initial capital.
DriverInit ==
    /\ pc = "awaiting_bar"
    /\ handler_calls = <<>>
    /\ iterations = 0
    /\ events = <<>>
    /\ bars = 0
    /\ latest_price = [t \in Tickers |-> 0]
    /\ signals = 0
    /\ orders = 0
    /\ fills = 0
    /\ cash = initial_capital
    /\ positions = [t \in Tickers |-> NoAsset]
    /\ snapshots = <<>>
    /\ rejections = 0
    /\ order_status = <<>>
    /\ liquidity = [called |-> FALSE, price |-> 0, qty |-> 0, cash |-> 0,
                    result |-> TRUE]
    /\ fill_log = <<>>

Init ==
    /\ DriverInit
    /\ sizing_quantity \in Sizes
    /\ fill_commission \in Commissions
    /\ LoneIdle

\* ------------------------------------------------------------ Backtest.run
\* data_handler.update_bars() returns: the feed has another bar, whose
\* MARKET event it pushes.
UpdateBars ==
    /\ pc = "awaiting_bar"
    /\ bars < MaxBars
    /\ iterations' = iterations + 1
    /\ bars' = bars + 1
    /\ \E p \in [Tickers -> Prices] : latest_price' = p
    /\ events' = Append(events, MarketEvent(bars + 1))
    /\ pc' = "draining"
    /\ UNCHANGED <<handler_calls, signals, orders, fills, portfolio_vars,
                   config_vars, lone_vars>>

\* data_handler.update_bars() raises StopIteration: run breaks out.
EndOfHistory ==
    /\ pc = "awaiting_bar"
    /\ iterations' = iterations + 1
    /\ pc' = "terminated"
    /\ UNCHANGED <<handler_calls, events, bars, latest_price, signals, orders,
                   fills, portfolio_vars, config_vars, lone_vars>>

\* A drain loop that leaves for the next bar whether or not the queue is empty.
ContinueToNextDayUnchecked ==
    /\ pc = "draining"
    /\ pc' = "awaiting_bar"
    /\ UNCHANGED <<handler_calls, iterations, events, bars, latest_price,
                   signals, orders, fills, portfolio_vars, config_vars,
                   lone_vars>>

\* events.get(False) raises queue.Empty: on to the next day.
ContinueToNextDay ==
    /\ pc = "draining"
    /\ events = <<>>
    /\ pc' = "awaiting_bar"
    /\ UNCHANGED <<handler_calls, iterations, events, bars, latest_price,
                   signals, orders, fills, portfolio_vars, config_vars,
                   lone_vars>>

\* A drain loop that takes one event and then asks for the next bar (an `if`
\* where the code has its inner `while`).
GetEventOnce ==
    /\ pc = "draining"
    /\ events # <<>>
    /\ pc' = "awaiting_bar"
    /\ UNCHANGED <<iterations, bars, latest_price, config_vars, lone_vars>>

\* events.get(False) returns an event, which _process_event dispatches by
\* its type; run's own variables stay as they are while the handlers return.
GetEvent ==
    /\ pc = "draining"
    /\ events # <<>>
    /\ UNCHANGED <<pc, iterations, bars, latest_price, config_vars, lone_vars>>

\* A MARKET branch that calls the strategy and forgets the portfolio.
ProcessMarketNoTimeindex ==
    /\ GetEvent
    /\ Head(events).type = "MARKET"
    /\ handler_calls' = <<"generate_signals">>
    /\ \E batch \in SignalBatches(Head(events).bar, signals) :
          events' = Tail(events) \o batch
    /\ UNCHANGED <<signals, orders, fills, portfolio_vars>>

\* A MARKET branch that takes the snapshot first and calls the strategy second.
ProcessMarketTimeindexFirst ==
    /\ GetEvent
    /\ Head(events).type = "MARKET"
    /\ handler_calls' = <<"update_timeindex", "generate_signals">>
    /\ \E batch \in SignalBatches(Head(events).bar, signals) :
          events' = Tail(events) \o batch
    /\ update_timeindex(Head(events))
    /\ UNCHANGED <<signals, orders, fills, cash, rejections, order_status,
                   liquidity, fill_log>>

\* _process_event, MARKET: strategy.generate_signals pushes its events, then
\* portfolio.update_timeindex appends the snapshot.
ProcessMarket ==
    /\ GetEvent
    /\ Head(events).type = "MARKET"
    /\ handler_calls' = <<"generate_signals", "update_timeindex">>
    /\ \E batch \in SignalBatches(Head(events).bar, signals) :
          events' = Tail(events) \o batch
    /\ update_timeindex(Head(events))
    /\ UNCHANGED <<signals, orders, fills, cash, rejections, order_status,
                   liquidity, fill_log>>

\* A SIGNAL branch in which a liquidity rejection escapes as an error and
\* ends the run.
ProcessSignalRejectionFatal ==
    /\ pc = "draining"
    /\ events # <<>>
    /\ Head(events).type = "SIGNAL"
    /\ handler_calls' = <<"update_signal">>
    /\ signals' = signals + 1
    /\ update_signal(Head(events))
    /\ events' = Tail(events) \o signal_orders(Head(events))
    /\ pc' = IF signal_orders(Head(events)) = <<>> THEN "aborted" ELSE pc
    /\ UNCHANGED <<iterations, bars, latest_price, config_vars, lone_vars,
                   orders, fills, cash, positions, snapshots, fill_log>>

\* _process_event, SIGNAL: signals += 1, portfolio.update_signal
ProcessSignal ==
    /\ GetEvent
    /\ Head(events).type = "SIGNAL"
    /\ handler_calls' = <<"update_signal">>
    /\ signals' = signals + 1
    /\ update_signal(Head(events))
    /\ events' = Tail(events) \o signal_orders(Head(events))
    /\ UNCHANGED <<orders, fills, cash, positions, snapshots, fill_log>>

\* A TRADE branch that counts the order as a fill.
ProcessTradeCountsFill ==
    /\ GetEvent
    /\ Head(events).type = "TRADE"
    /\ handler_calls' = <<"execute_order">>
    /\ fills' = fills + 1
    /\ execute_order(Head(events))
    /\ UNCHANGED <<signals, orders, cash, positions, snapshots, rejections,
                   liquidity, fill_log>>

\* _process_event, TRADE: orders += 1, execution_handler.execute_order
ProcessTrade ==
    /\ GetEvent
    /\ Head(events).type = "TRADE"
    /\ handler_calls' = <<"execute_order">>
    /\ orders' = orders + 1
    /\ execute_order(Head(events))
    /\ UNCHANGED <<signals, fills, cash, positions, snapshots, rejections,
                   liquidity, fill_log>>

\* _process_event, FILL: fills += 1, portfolio.update_fill.  An exception
\* update_fill raises is caught neither here nor in run, whose only handlers
\* are for StopIteration and queue.Empty: the run ends with it.
ProcessFill ==
    /\ pc = "draining"
    /\ events # <<>>
    /\ Head(events).type = "FILL"
    /\ handler_calls' = <<"update_fill">>
    /\ fills' = fills + 1
    /\ events' = Tail(events)
    /\ IF update_fill_raises(Head(events))
       THEN /\ pc' = "aborted"
            /\ UNCHANGED <<cash, positions, order_status, fill_log>>
       ELSE /\ pc' = pc
            /\ update_fill(Head(events))
    /\ UNCHANGED <<iterations, bars, latest_price, config_vars, lone_vars,
                   signals, orders, snapshots, rejections, liquidity>>

\* _process_event, an event of any other type: no branch of the if / elif
\* chain takes it and there is no else; the call returns and run goes on.
ProcessOther ==
    /\ GetEvent
    /\ Head(events).type \notin EventTypes
    /\ handler_calls' = <<>>
    /\ events' = Tail(events)
    /\ UNCHANGED <<signals, orders, fills, portfolio_vars>>

Next ==
    \/ UpdateBars
    \/ EndOfHistory
    \/ ContinueToNextDay
    \/ ProcessMarket
    \/ ProcessSignal
    \/ ProcessTrade
    \/ ProcessFill
    \/ ProcessOther

Spec == Init /\ [][Next]_vars

\* run is one thread that takes its next step whenever it has one: every
\* call it makes returns or raises.
FairSpec == Spec /\ WF_vars(Next)

\* ------------------------------------------------- a lone OwnedAsset
\* The calls made on the asset so far: its construction first, then each
\* make_trade and update_total_position_value call.
TradeCall(qty, price) == [op |-> "trade", qty |-> qty, price |-> price]
MarkCall(price) == [op |-> "mark", qty |-> 0, price |-> price]

FailedCall(op, qty, price) == [op |-> op, qty |-> qty, price |-> price]
FromTradeCall(qty, price, position) ==
    [op |-> "from_trade", qty |-> qty, price |-> price, position |-> position]

\* No run of the driver is under way.
DriverIdle ==
    /\ DriverInit
    /\ sizing_quantity = 0
    /\ fill_commission = 0

\* After OwnedAsset(ticker, shares_owned, position, avg_share_price), or
\* after OwnedAsset.from_trade(trade, position); oa is NoAsset when the call
\* raised.
InitAsset ==
    /\ DriverIdle
    /\ blotter_log = <<>>
    /\ tx = [at |-> "idle"]
    /\ tx_log = <<>>
    /\ \E position \in Positions, price \in Prices :
          \/ \E shares \in Shares :
                /\ oa = OwnedAsset("X", shares, position, price, 0)
                /\ oa_log = <<TradeCall(shares, price)>>
          \/ \E shares \in NonIntegral :
                /\ oa = OwnedAsset("X", shares, position, price, 0)
                /\ oa_log = <<IF oa = NoAsset
                              THEN FailedCall("init", shares, price)
                              ELSE TradeCall(shares, price)>>
          \/ \E qty \in Shares \ {0} :
                /\ oa = from_trade([ticker |-> "X", qty |-> qty,
                                    avg_price_per_share |-> price,
                                    trade_date |-> 0], position)
                /\ oa_log = <<FromTradeCall(qty, price, position)>>
    /\ oa_ret = IF oa = NoAsset THEN "TypeError" ELSE "self"

\* oa.make_trade(qty, price)
MakeTrade ==
    /\ oa # NoAsset
    /\ Len(oa_log) <= MaxCalls
    /\ \E price \in Prices :
          \/ \E qty \in Quantities :
                /\ oa' = make_trade(oa, qty, price).asset
                /\ oa_ret' = make_trade(oa, qty, price).ret
                /\ oa_log' = Append(oa_log, TradeCall(qty, price))
          \/ \E qty \in NonIntegral :
                /\ oa' = make_trade(oa, qty, price).asset
                /\ oa_ret' = make_trade(oa, qty, price).ret
                /\ oa_log' = Append(oa_log,
                      IF make_trade(oa, qty, price).ret = "TypeError"
                      THEN FailedCall("make_trade", qty, price)
                      ELSE TradeCall(qty, price))
    /\ UNCHANGED <<driver_vars, portfolio_vars, config_vars, blotter_vars,
                   session_vars>>

\* oa.update_total_position_value(price, date)
MarkToMarket ==
    /\ oa # NoAsset
    /\ Len(oa_log) <= MaxCalls
    /\ \E price \in Prices, date \in Dates :
          /\ oa' = update_total_position_value(oa, price, date)
          /\ oa_log' = Append(oa_log, MarkCall(price))
    /\ UNCHANGED <<oa_ret, driver_vars, portfolio_vars, config_vars,
                   blotter_vars, session_vars>>

NextAsset ==
    \/ MakeTrade
    \/ MarkToMarket

SpecAsset == InitAsset /\ [][NextAsset]_vars

\* ---------------------------------------------------- a lone Blotter
BlotterCall(op, order_id) == [op |-> op, order_id |-> order_id]

\* A new Blotter: no order yet.
InitBlotter ==
    /\ DriverIdle
    /\ LoneIdle

\* blotter.place_order(...): a new OPEN order under the next identifier
PlaceOrder ==
    /\ Len(blotter_log) < MaxBlotterCalls
    /\ order_status' = Append(order_status, "OPEN")
    /\ blotter_log' = Append(blotter_log,
                             BlotterCall("place_order", Len(order_status) + 1))
    /\ UNCHANGED <<driver_vars, cash, positions, snapshots, rejections,
                   liquidity, fill_log, config_vars, asset_vars, session_vars>>

\* blotter.on_fill(...) for an order the Blotter has seen, open or not
OnFill ==
    /\ Len(blotter_log) < MaxBlotterCalls
    /\ \E id \in DOMAIN order_status :
          /\ order_status' = on_fill(order_status, id)
          /\ blotter_log' = Append(blotter_log, BlotterCall("on_fill", id))
    /\ UNCHANGED <<driver_vars, cash, positions, snapshots, rejections,
                   liquidity, fill_log, config_vars, asset_vars, session_vars>>

\* blotter.on_reject(...), likewise
OnReject ==
    /\ Len(blotter_log) < MaxBlotterCalls
    /\ \E id \in DOMAIN order_status :
          /\ order_status' = on_reject(order_status, id)
          /\ blotter_log' = Append(blotter_log, BlotterCall("on_reject", id))
    /\ UNCHANGED <<driver_vars, cash, positions, snapshots, rejections,
                   liquidity, fill_log, config_vars, asset_vars, session_vars>>

NextBlotter ==
    \/ PlaceOrder
    \/ OnFill
    \/ OnReject

SpecBlotter == InitBlotter /\ [][NextBlotter]_vars

\* ------------------------------------- db_utils.transactional_session
\* A use that has ended: how it was made, how its body ended, what was
\* called on its session and how the use ended for the caller.
Use(u, body, commits, rollbacks, closes, outcome) ==
    [via |-> u.via, auto_close |-> u.auto_close, body |-> body,
     commits |-> commits, rollbacks |-> rollbacks, closes |-> closes,
     outcome |-> outcome]

\* No use yet.
InitSession ==
    /\ DriverIdle
    /\ LoneIdle

\* `with transactional_session(auto_close) as session:`, written out or
\* made by the in_transaction(auto_close=...) wrapper: session = Session(),
\* and the generator yields it to the body.
EnterSession ==
    /\ tx.at = "idle"
    /\ Len(tx_log) < MaxUses
    /\ \E auto_close \in BOOLEAN, via \in {"with", "in_transaction"} :
          tx' = [at |-> "body", via |-> via, auto_close |-> auto_close]
    /\ UNCHANGED <<tx_log, driver_vars, portfolio_vars, config_vars,
                   asset_vars, blotter_vars>>

\* A use whose body raises and whose rollback is followed by a commit (a
\* commit in a finally clause).
BodyRaisesCommits ==
    /\ tx.at = "body"
    /\ tx_log' = Append(tx_log, Use(tx, "raised", 1, 1, 0, "raised"))
    /\ tx' = [at |-> "idle"]
    /\ UNCHANGED <<driver_vars, portfolio_vars, config_vars, asset_vars,
                   blotter_vars>>

\* The body raises: the except clause rolls the session back and re-raises.
BodyRaises ==
    /\ tx.at = "body"
    /\ tx_log' = Append(tx_log, Use(tx, "raised", 0, 1, 0, "raised"))
    /\ tx' = [at |-> "idle"]
    /\ UNCHANGED <<driver_vars, portfolio_vars, config_vars, asset_vars,
                   blotter_vars>>

\* The body completes (in the wrapper, func returns): the else clause
\* commits, and closes the session if auto_close.
BodyReturns ==
    /\ tx.at = "body"
    /\ tx_log' = Append(tx_log,
          Use(tx, "returned", 1, 0, IF tx.auto_close THEN 1 ELSE 0,
              "returned"))
    /\ tx' = [at |-> "idle"]
    /\ UNCHANGED <<driver_vars, portfolio_vars, config_vars, asset_vars,
                   blotter_vars>>

NextSession ==
    \/ EnterSession
    \/ BodyRaises
    \/ BodyReturns

SpecSession == InitSession /\ [][NextSession]_vars

\* ================================================== the driver's contracts
Dispatching(type) ==
    pc = "draining" /\ events # <<>> /\ Head(events).type = type

\* C1: within-bar causal closure.  The feed is asked for the next bar only
\* when the queue is empty, so every queued event belongs to the bar the feed
\* delivered last: no event of bar k is still waiting when an event of bar
\* k+1 exists, let alone is dispatched.
C1_CausalClosure ==
    /\ \A i \in DOMAIN events : events[i].bar = bars
    /\ pc = "awaiting_bar" => events = <<>>

\* The second bar's causal chain in progress, two of its events queued.
C1_Witness ==
    /\ bars = 2
    /\ orders > 1
    /\ Len(events) = 2
    /\ events[1].type = "TRADE"
    /\ events[2].type = "FILL"

\* C2: a dispatched MARKET event appends exactly one snapshot and a step that
\* dispatches no MARKET event leaves the snapshots alone; between bars and at
\* termination there are as many snapshots as bars delivered.
C2_SnapshotPerMarket ==
    /\ [](pc \in {"awaiting_bar", "terminated"} => Len(snapshots) = bars)
    /\ [][IF Dispatching("MARKET")
          THEN /\ Len(snapshots') = Len(snapshots) + 1
               /\ SubSeq(snapshots', 1, Len(snapshots)) = snapshots
               /\ snapshots'[Len(snapshots')].timestamp = Head(events).bar
          ELSE snapshots' = snapshots]_vars

\* Two bars done, with signals and orders dispatched in between.
C2_Witness ==
    /\ pc = "awaiting_bar"
    /\ Len(snapshots) = 2
    /\ signals > 1
    /\ orders > 0

\* C4: check_liquidity(price, qty) is false exactly when price * qty exceeds
\* the cash available, for qty >= 0, and true for qty < 0 (the cases of
\* test_check_liquidity among them); the step that calls it leaves cash and
\* positions as they were.
C4_CheckLiquidity ==
    /\ [](/\ check_liquidity(100, 100, 2) = FALSE
          /\ check_liquidity(100, 100, -2) = TRUE
          /\ check_liquidity(100, 1, 2) = TRUE
          /\ liquidity.called =>
                /\ liquidity.qty >= 0 =>
                      (liquidity.result = FALSE
                          <=> liquidity.price * liquidity.qty > liquidity.cash)
                /\ liquidity.qty < 0 => liquidity.result = TRUE)
    /\ [][Dispatching("SIGNAL") =>
             /\ liquidity'.called /\ liquidity'.cash = cash
             /\ cash' = cash
             /\ positions' = positions]_vars

\* An order costing exactly the cash held is let through.
C4_Witness ==
    /\ liquidity.called
    /\ liquidity.qty > 0
    /\ liquidity.price * liquidity.qty = liquidity.cash
    /\ liquidity.result = TRUE

\* C5: at the end of history no event is dropped: the terminated driver's
\* queue is empty.
C5_TerminatedQueueEmpty == pc = "terminated" => events = <<>>

\* Terminated after a last bar that caused signals and orders.
C5_Witness ==
    /\ pc = "terminated"
    /\ bars = 2
    /\ events = <<>>
    /\ Len(order_status) > 0
    /\ order_status[Len(order_status)] = "REJECTED"
    /\ rejections > 0

\* C6: liquidity rejection.  A SIGNAL sized to an order costing more than the
\* cash available pushes no ORDER event, counts one rejection, opens no order,
\* leaves cash and positions unchanged, and the driver goes on draining.
C6_LiquidityRejection ==
    /\ [](check_liquidity(249, 15, 50) = FALSE)
    /\ [][(/\ Dispatching("SIGNAL")
          /\ liquidity'.qty >= 0
          /\ liquidity'.price * liquidity'.qty > cash) =>
              /\ events' = Tail(events)
              /\ rejections' = rejections + 1
              /\ order_status' = order_status
              /\ cash' = cash
              /\ positions' = positions
              /\ pc' = "draining"]_vars

\* A signal for 100 @ 15 refused with 1000 in cash, the run going on.
C6_Witness ==
    /\ pc = "draining"
    /\ rejections = 1
    /\ liquidity = [called |-> TRUE, price |-> 15, qty |-> 100,
                    cash |-> 1000, result |-> FALSE]
    /\ events = <<>>
    /\ orders = 0

\* what the fills applied so far have cost, commissions included
RECURSIVE FillsCost(_)
FillsCost(log) ==
    IF log = <<>> THEN 0
    ELSE Head(log).price * Head(log).qty + Head(log).commission
            + FillsCost(Tail(log))

Fill(qty, price, commission) ==
    [qty |-> qty, price |-> price, commission |-> commission]

\* C7: cash accounting on fills.  Each dispatched FILL lowers cash by
\* price * qty + commission (qty signed), so cash is the initial capital less
\* the cost of the fills applied; 50 @ 15 with commission 1 out of 1000 leaves
\* 249 and 50 shares; 10 @ 10 then -10 @ 12 at no commission gains 20 and
\* closes the position.
C7_CashAccounting ==
    /\ [](/\ cash = initial_capital - FillsCost(fill_log)
          /\ Len(fill_log) = fills
          /\ fill_log = <<Fill(50, 15, 1)>> =>
                /\ cash = 249
                /\ positions["X"] # NoAsset
                /\ positions["X"].shares_owned = 50
          /\ fill_log = <<Fill(10, 10, 0), Fill(-10, 12, 0)>> =>
                /\ cash = initial_capital + 20
                /\ positions["X"] = NoAsset)
    /\ [][Dispatching("FILL") =>
             cash' = cash - (Head(events).price * Head(events).qty
                                + Head(events).commission)]_vars

\* C8: no active position holds zero shares; a fill on a ticker with no
\* active position creates a fresh OwnedAsset whose quantity, cost, value and
\* average price come from that fill alone.
C8_NoEmptyPosition ==
    /\ [](\A t \in Tickers :
            positions[t] # NoAsset => positions[t].shares_owned # 0)
    /\ [][\A t \in Tickers :
            (/\ Dispatching("FILL")
             /\ Head(events).ticker = t
             /\ positions[t] = NoAsset) =>
                LET e == Head(events)
                    new == positions'[t]
                    long == e.qty > 0
                IN  /\ new # NoAsset
                    /\ new.ticker = t
                    /\ new.position = IF long THEN "LONG" ELSE "SHORT"
                    /\ new.shares_owned = Abs(e.qty)
                    /\ new.average_share_price_paid = <<e.price, 1>>
                    /\ new.latest_price = e.price
                    /\ new.total_position_cost =
                          IF long THEN -(e.price * Abs(e.qty))
                                  ELSE e.price * Abs(e.qty)
                    /\ new.total_position_value =
                          IF long THEN e.price * Abs(e.qty)
                                  ELSE -(e.price * Abs(e.qty))]_vars

\* C11: an event of a type other than MARKET, SIGNAL, TRADE and FILL that
\* reaches the dispatcher is fatal: the step that dispatches it aborts the
\* run, which does not go on to the next event.
C11_UnknownEventFatal ==
    [][(/\ pc = "draining"
        /\ events # <<>>
        /\ Head(events).type \notin EventTypes) => pc' = "aborted"]_vars

\* C14: MARKET dispatch order.  A MARKET dispatch calls generate_signals,
\* then update_timeindex; what the strategy pushes is queued behind the
\* events already there and none of it is dispatched in that step, which
\* appends the bar's snapshot; so the snapshot of bar k is there whenever a
\* SIGNAL, ORDER or FILL of bar k is queued or dispatched.  A FILL dispatch
\* pushes no event.
C14_MarketDispatchOrder ==
    /\ [](\A i \in DOMAIN events :
            events[i].type # "MARKET" =>
                /\ Len(snapshots) >= events[i].bar
                /\ snapshots[events[i].bar].timestamp = events[i].bar)
    /\ [][Dispatching("MARKET") =>
             /\ handler_calls' = <<"generate_signals", "update_timeindex">>
             /\ Len(snapshots) = Head(events).bar - 1
             /\ Len(snapshots') = Head(events).bar
             /\ Len(events') >= Len(events) - 1
             /\ SubSeq(events', 1, Len(events) - 1) = Tail(events)
             /\ signals' = signals /\ orders' = orders /\ fills' = fills]_vars
    /\ [][Dispatching("FILL") => events' = Tail(events)]_vars

\* Two bars' snapshots taken, three signals dispatched and the first fill
\* dispatched with two more events still queued.
C14_Witness ==
    /\ bars = 2
    /\ Len(snapshots) = 2
    /\ signals = 3
    /\ fills = 1
    /\ handler_calls = <<"update_fill">>
    /\ Len(events) = 2

\* C15: termination.  The feed yielding finitely many bars, a MARKET event
\* finitely many signals, a signal at most one order, an order at most one
\* fill and a fill nothing, run reaches TERMINATED, and every drain phase
\* ends with the queue empty and the driver awaiting the next bar.
C15_Termination ==
    /\ <>(pc = "terminated")
    /\ (pc = "draining") ~> (pc = "awaiting_bar" /\ events = <<>>)

\* C20: the driver's counters.  signals, orders and fills start at zero and
\* a step adds one to signals exactly when it dispatches a SIGNAL event, to
\* orders when a TRADE event, to fills when a FILL event, and changes none of
\* them otherwise, a MARKET dispatch included; whenever the queue is empty,
\* fills <= orders <= signals.
C20_DriverCounters ==
    /\ [](/\ iterations = 0 => (signals = 0 /\ orders = 0 /\ fills = 0)
          /\ events = <<>> => (fills <= orders /\ orders <= signals))
    /\ [][/\ signals' = signals + (IF Dispatching("SIGNAL") THEN 1 ELSE 0)
          /\ orders' = orders + (IF Dispatching("TRADE") THEN 1 ELSE 0)
          /\ fills' = fills + (IF Dispatching("FILL") THEN 1 ELSE 0)]_vars

\* Between the bars, the first bar's signals, orders and fill rejections
\* counted; the counters differ.
C20_Witness ==
    /\ pc = "awaiting_bar"
    /\ bars = 1
    /\ events = <<>>
    /\ signals = 3
    /\ orders = 2
    /\ fills = 0
    /\ rejections = 1

\* ================================================ the Blotter's contract
\* C12: each order makes at most one terminal transition.  An order is
\* created OPEN; a step changes an order's status only from OPEN, to FILLED
\* or REJECTED, which takes it out of the open set; whatever on_fill and
\* on_reject calls follow, a FILLED or REJECTED order stays as it is.
C12_OneTerminalTransition ==
    [][/\ Len(order_status') >= Len(order_status)
       /\ \A id \in DOMAIN order_status' \ DOMAIN order_status :
             order_status'[id] = "OPEN"
       /\ \A id \in DOMAIN order_status :
             /\ order_status[id] # "OPEN" =>
                   order_status'[id] = order_status[id]
             /\ order_status'[id] # order_status[id] =>
                   /\ order_status'[id] \in {"FILLED", "REJECTED"}
                   /\ id \in open_orders(order_status)
                   /\ id \notin open_orders(order_status')]_vars

\* An order filled, then handed a second fill and a rejection.
C12_Witness ==
    /\ blotter_log = <<BlotterCall("place_order", 1), BlotterCall("on_fill", 1),
                       BlotterCall("on_fill", 1), BlotterCall("on_reject", 1)>>
    /\ order_status = <<"FILLED">>

\* ============================================ the OwnedAsset contracts
OnlyTrades == \A i \in DOMAIN oa_log : oa_log[i].op = "trade"

\* the shares and the cash the fills in a call log add up to
RECURSIVE SumQty(_)
SumQty(log) ==
    IF log = <<>> THEN 0
    ELSE (IF Head(log).op = "trade" THEN Head(log).qty ELSE 0)
            + SumQty(Tail(log))

RECURSIVE SumQtyPrice(_)
SumQtyPrice(log) ==
    IF log = <<>> THEN 0
    ELSE (IF Head(log).op = "trade" THEN Head(log).qty * Head(log).price ELSE 0)
            + SumQtyPrice(Tail(log))

\* C3: weighted-average associativity.  After fills applied one by one that
\* leave shares_owned non-zero, average_share_price_paid is the average of a
\* single combined fill of sum(qty) at sum(qty * price) / sum(qty).
C3_WeightedAverage ==
    (OnlyTrades /\ oa.shares_owned # 0 /\ SumQty(oa_log) # 0) =>
        oa.average_share_price_paid =
            Frac(SumQtyPrice(oa_log), SumQty(oa_log))

\* C9: sign convention.  A LONG position's total_position_cost is minus the
\* cumulative cash outflow of its fills and its total_position_value is
\* shares_owned * latest_price; for a SHORT position both signs are inverted.
C9_SignConvention ==
    oa # NoAsset =>
        IF oa.position = "LONG"
        THEN /\ oa.total_position_cost = -SumQtyPrice(oa_log)
             /\ oa.total_position_value = oa.shares_owned * oa.latest_price
        ELSE /\ oa.total_position_cost = SumQtyPrice(oa_log)
             /\ oa.total_position_value = -(oa.shares_owned * oa.latest_price)

\* C10: shares_owned is never negative.
C10_SharesNonNegative == oa # NoAsset => oa.shares_owned >= 0

\* the last call on the asset, when the step made one
Called(op) ==
    /\ Len(oa_log') = Len(oa_log) + 1
    /\ oa_log'[Len(oa_log')].op = op

C16_InvalidQuantity ==
    /\ [](/\ oa # NoAsset => IsIntegral(oa.shares_owned)
          /\ (Len(oa_log) = 1 /\ ~IsIntegral(oa_log[1].qty)) =>
                /\ oa = NoAsset
                /\ oa_ret = "TypeError")
    /\ [][(/\ Len(oa_log') = Len(oa_log) + 1
           /\ oa_log'[Len(oa_log')].op \in {"trade", "make_trade"}
           /\ ~IsIntegral(oa_log'[Len(oa_log')].qty)) =>
              /\ oa_ret' = "TypeError"
              /\ oa' = oa
              /\ oa'.shares_owned = oa.shares_owned
              /\ oa'.total_position_cost = oa.total_position_cost
              /\ oa'.total_position_value = oa.total_position_value
              /\ oa'.average_share_price_paid = oa.average_share_price_paid]_vars

\* A trade made, then one with a non-integral quantity refused.
C16_Witness ==
    /\ Len(oa_log) = 3
    /\ oa_log[2].op = "trade"
    /\ oa_log[3].op = "make_trade"
    /\ ~IsIntegral(oa_log[3].qty)
    /\ oa_ret = "TypeError"
    /\ oa.shares_owned = oa_log[1].qty + oa_log[2].qty

\* C17: the factory.  OwnedAsset.from_trade(trade, position) returns a new
\* OwnedAsset with the trade's ticker, the given position, shares_owned =
\* trade.qty, average_share_price_paid = latest_price =
\* trade.avg_price_per_share and total_position_cost / total_position_value
\* = -/+ price * qty for LONG, +/- price * qty for SHORT.
C17_FromTrade ==
    (Len(oa_log) = 1 /\ oa_log[1].op = "from_trade") =>
        LET call == oa_log[1]
            long == call.position = "LONG"
        IN  /\ oa # NoAsset
            /\ oa_ret = "self"
            /\ oa.ticker = "X"
            /\ oa.position = call.position
            /\ oa.shares_owned = call.qty
            /\ oa.average_share_price_paid = <<call.price, 1>>
            /\ oa.latest_price = call.price
            /\ oa.total_position_cost =
                  IF long THEN -(call.price * call.qty)
                          ELSE call.price * call.qty
            /\ oa.total_position_value =
                  IF long THEN call.price * call.qty
                          ELSE -(call.price * call.qty)

\* C18: the frame of the mutators.  update_total_position_value changes
\* latest_price, latest_price_time and total_position_value and nothing else
\* of the asset; make_trade, refused or not, changes neither position nor
\* ticker nor latest_price; no step changes position.
C18_MutatorFrame ==
    /\ [][Called("mark") =>
             \A f \in DOMAIN oa \ {"latest_price", "latest_price_time",
                                   "total_position_value"} :
                 oa'[f] = oa[f]]_vars
    /\ [][(Called("trade") \/ Called("make_trade")) =>
             /\ oa'.position = oa.position
             /\ oa'.ticker = oa.ticker
             /\ oa'.latest_price = oa.latest_price]_vars
    /\ [][oa'.position = oa.position /\ DOMAIN oa' = DOMAIN oa]_vars

\* A SHORT position marked to a new price, then traded at another.
C18_Witness ==
    /\ Len(oa_log) = 3
    /\ oa_log[2].op = "mark"
    /\ oa_log[3].op = "trade"
    /\ oa.position = "SHORT"
    /\ oa.latest_price = oa_log[2].price
    /\ oa.latest_price # oa_log[1].price
    /\ oa.latest_price # oa_log[3].price
    /\ oa.total_position_cost # 0

====
